---- MODULE Spec2Model ----
(***************************************************************************)
(* A model of the private blockchain of src/src/blockchain.js: the chain   *)
(* array, the cached height, and every method of the Blockchain class as   *)
(* the steps it takes between two awaits.  JavaScript runs each such step  *)
(* to completion; steps of different calls in flight interleave freely.    *)
(*                                                                         *)
(* Strings that the code splits on ':' are sequences of their ':'-free     *)
(* fields; a field is <<"s", text>> or <<"n", number>> (a decimal string). *)
(* Hashes are ideal: SHA256 is injective (the tuple of what it digests).   *)
(***************************************************************************)
EXTENDS Integers, Sequences, FiniteSets, TLC

VARIABLES chain, height, nowMs, calls, tampered

vars == <<chain, height, nowMs, calls, tampered>>

----------------------------------------------------------------------------
(* Bounds of the model *)

\* greatest height an append is started for
MaxHeight == 2
\* clock ticks after construction
MaxTicks == 1
\* milliseconds per clock tick
TickMs == 500

(* Program constants *)

\* the 5 minute timelock of submitStar, in seconds
TimeLock == 300
\* .toString().slice(0, -3): milliseconds to seconds
MsPerSec == 1000

\* the places of the calls in flight: two calls run at once
Slots == {1, 2}

----------------------------------------------------------------------------
(* Values *)

\* null
NoHash == <<>>

Txt(s) == <<"s", s>>
Num(n) == <<"n", n>>

\* wallet addresses, as strings: sequences of ':'-free fields
Addresses == {<<Txt("addrA")>>, <<Txt("addrB")>>}

Stars == {"star1"}

\* what a caller can pass as signature: one made by the key of `signer` over
\* `msg`, or bytes the signature library cannot parse
Signature(signer, msg) == [wellFormed |-> TRUE, signer |-> signer, msg |-> msg]
Malformed == [wellFormed |-> FALSE, signer |-> <<>>, msg |-> <<>>]

\* new Date().getTime().toString().slice(0, -3)
Seconds(ms) == ms \div MsPerSec

NaN == [nan |-> TRUE, val |-> 0]

\* parseInt(field); parseInt(undefined) is NaN
ParseInt(fields, i) ==
    IF i <= Len(fields) /\ fields[i][1] = "n"
    THEN [nan |-> FALSE, val |-> fields[i][2]]
    ELSE NaN

\* Buffer.from(JSON.stringify(data)).toString('hex') and its inverse
Encode(data) == <<"hex", data>>
Decodable(body) == body[1] = "hex"
Decode(body) == body[2]

\* new BlockClass.Block(data)
Block(data) ==
    [hash |-> NoHash, height |-> 0, body |-> Encode(data), time |-> 0,
     previousBlockHash |-> NoHash]

GenesisData == [data |-> "Genesis Block"]

\* SHA256(JSON.stringify(block)).toString()
SHA256(block) ==
    <<"sha256", block.hash, block.height, block.body, block.time,
      block.previousBlockHash>>

\* block.validate(): TRUE when the promise resolves, FALSE when it rejects
BlockValidate(block) == SHA256([block EXCEPT !.hash = NoHash]) = block.hash

\* block.getBData(): the decoded body; nothing for the genesis block, nor for
\* a body that does not decode
HasBData(block) == block.height > 0 /\ Decodable(block.body)
getBData(block) == Decode(block.body)

----------------------------------------------------------------------------
(* requestMessageOwnershipVerification *)

\* `${address}:${seconds}:starRegistry`
Challenge(address, seconds) == address \o <<Num(seconds), Txt("starRegistry")>>

\* a bug: .slice(0, -3) is missing
requestMessageOwnershipVerification_Millis(address, ms) == Challenge(address, ms)

requestMessageOwnershipVerification(address, ms) == Challenge(address, Seconds(ms))

\* a bug: the signer is not compared with the address
Verify_AnySigner(message, address, signature) == signature.msg = message

\* bitcoinMessage.verify(message, address, signature), for a signature the
\* library can parse
Verify(message, address, signature) ==
    signature.signer = address /\ signature.msg = message

----------------------------------------------------------------------------
(* _addBlock, up to its await of validateChain (lines 70-81) *)

\* self.chain[self.height - 1] of line 76 is undefined: a TypeError
AddBlockThrows(c, h) == h + 1 > 0 /\ h + 1 > Len(c)

\* a bug: the length is compared with the height itself
HeightDiscrepancy_NoOffset(c, h) == Len(c) - h # 0

\* line 71: the reject that does not return
HeightDiscrepancy(c, h) == Len(c) - h # 1

\* a bug: the previous hash is never assigned
SealBlock_Unlinked(c, h, block, ms) ==
    LET stamped == [block EXCEPT !.height = h + 1, !.time = Seconds(ms)]
    IN  [stamped EXCEPT !.hash = SHA256(stamped)]

\* a bug: the hash is taken before the time is assigned
SealBlock_HashFirst(c, h, block, ms) ==
    LET linked == [block EXCEPT
                     !.height = h + 1,
                     !.previousBlockHash =
                         IF h + 1 > 0 THEN c[h + 1].hash ELSE @]
    IN  [linked EXCEPT !.hash = SHA256(linked), !.time = Seconds(ms)]

SealBlock(c, h, block, ms) ==
    LET linked == [block EXCEPT
                     !.height = h + 1,
                     !.previousBlockHash =
                         IF h + 1 > 0 THEN c[h + 1].hash ELSE @,
                     !.time = Seconds(ms)]
    IN  [linked EXCEPT !.hash = SHA256(linked)]

PushBlock(c, h, block, ms) == Append(c, SealBlock(c, h, block, ms))

----------------------------------------------------------------------------
(* validateChain: one turn of its loop (lines 205-234) on the block at     *)
(* index i (from 0) of chain c                                             *)

Finding(h, kind) == [blockHeight |-> h, kind |-> kind]

\* self.chain[index - 1] is undefined: a TypeError, caught at line 236,
\* where `reject` is not defined
VisitThrows(c, i) == c[i + 1].height > 0 /\ i = 0

HeightFindings(c, i) ==
    IF c[i + 1].height > 0 /\ c[i + 1].height # c[i].height + 1
    THEN <<Finding(c[i + 1].height, "critical")>>
    ELSE <<>>

LinkFindings(c, i) ==
    IF c[i + 1].height > 0 /\ c[i + 1].previousBlockHash # c[i].hash
    THEN <<Finding(c[i + 1].height, "previousHash")>>
    ELSE <<>>

\* a bug: the hash check guarded like the two checks before it
HashFindings_NotGenesis(c, i) ==
    IF c[i + 1].height > 0 /\ ~BlockValidate(c[i + 1])
    THEN <<Finding(c[i + 1].height, "currentHash")>>
    ELSE <<>>

HashFindings(c, i) ==
    IF BlockValidate(c[i + 1])
    THEN <<>>
    ELSE <<Finding(c[i + 1].height, "currentHash")>>

VisitBlock(c, i) == HeightFindings(c, i) \o LinkFindings(c, i) \o HashFindings(c, i)

----------------------------------------------------------------------------
(* Calls in flight *)

Idle ==
    [op |-> "idle", pc |-> "idle", address |-> <<>>, star |-> "",
     elapsed |-> 0, sig |-> "none", verifyCalled |-> FALSE,
     block |-> Block(GenesisData), idx |-> 0, errorLog |-> <<>>,
     outcome |-> "none", value |-> <<>>, len0 |-> 0, tampered0 |-> {},
     stars |-> <<>>, delivered |-> FALSE, seen |-> <<>>, at |-> 0]

NewCall(op) == [Idle EXCEPT !.op = op, !.pc = "run", !.outcome = "pending"]

\* resolve/reject of a promise: the first one settles it, later ones do nothing
Settle(call, outcome, value) ==
    IF call.outcome = "pending"
    THEN [call EXCEPT !.outcome = outcome, !.value = value]
    ELSE call

\* validateChain called: the loop runs to its first await
StartValidation(call, c) ==
    IF c = <<>>
    THEN [call EXCEPT !.pc = "validating"]
    ELSE IF VisitThrows(c, 0)
    THEN [call EXCEPT !.pc = "dead"]
    ELSE [call EXCEPT !.pc = "validating", !.idx = 1, !.errorLog = VisitBlock(c, 0)]

\* the chain and the cached height once _addBlock has reached its await
ChainAfterAdd(c, h, block, ms) ==
    IF AddBlockThrows(c, h) THEN c ELSE PushBlock(c, h, block, ms)

\* a bug: this.height is not updated
HeightAfterAdd_Stale(h) == h

HeightAfterAdd(h) == h + 1

Discrepancy == "Block height discrepancy!"

\* _addBlock(block) called on chain c with cached height h, for `call`
StartAddBlock(call, c, h, block, ms) ==
    LET checked == IF HeightDiscrepancy(c, h) /\ call.op = "submitStar"
                   THEN Settle(call, "rejected", Discrepancy)
                   ELSE call
    IN  IF AddBlockThrows(c, h)
        THEN [checked EXCEPT !.pc = "done"]
        ELSE StartValidation(
               [checked EXCEPT !.block = SealBlock(c, h, block, ms)],
               PushBlock(c, h, block, ms))

TimedOut == "Error: Timed out or not verified."

\* a bug: line 144 runs before the result of _addBlock is there
FinishCall_RejectFirst(call) ==
    [Settle(Settle(call, "rejected", "Error: Timed out or not verified."),
            "resolved", call.block) EXCEPT !.pc = "done"]

\* a bug: the findings of the validation after the append are dropped
FinishCall_IgnoreFindings(call) ==
    CASE call.op = "validateChain" ->
           [Settle(call, "resolved", call.errorLog) EXCEPT !.pc = "done"]
      [] call.op = "initializeChain" ->
           [Settle(call, "resolved", <<>>) EXCEPT !.pc = "done"]
      [] call.op = "submitStar" ->
           [Settle(call, "resolved", call.block) EXCEPT !.pc = "done"]

\* the awaits after validateChain has resolved: _addBlock lines 86-88, then
\* initializeChain lines 39-42 or submitStar lines 138-144
FinishCall(call) ==
    LET ok == Len(call.errorLog) = 0
    IN  CASE call.op = "validateChain" ->
               [Settle(call, "resolved", call.errorLog) EXCEPT !.pc = "done"]
          [] call.op = "initializeChain" ->
               [Settle(call, "resolved", <<>>) EXCEPT !.pc = "done"]
          [] call.op = "submitStar" ->
               [Settle(IF ok THEN Settle(call, "resolved", call.block)
                             ELSE Settle(call, "rejected", call.errorLog),
                       "rejected", TimedOut) EXCEPT !.pc = "done"]

----------------------------------------------------------------------------
(* The state after `new Blockchain()`: the constructor has called           *)
(* initializeChain, which ran _addBlock and validateChain to the first await *)

EmptyChain == <<>>
NoHeight == -1

\* a bug: the constructor leaves the genesis block to a later call
InitializedChain_Lazy(c, h, ms) == c

\* a bug: initializeChain starts the chain anew whenever it is called
InitializedChain_Anew(c, h, ms) ==
    PushBlock(EmptyChain, NoHeight, Block(GenesisData), ms)

\* initializeChain() on chain c with cached height h
InitializedChain(c, h, ms) ==
    IF h = NoHeight THEN ChainAfterAdd(c, h, Block(GenesisData), ms) ELSE c

InitializedHeight(h) == IF h = NoHeight THEN HeightAfterAdd(h) ELSE h

InitializeCall(call, c, h, ms) ==
    IF h = NoHeight
    THEN StartAddBlock(call, c, h, Block(GenesisData), ms)
    ELSE [Settle(call, "resolved", <<>>) EXCEPT !.pc = "done"]

Init ==
    /\ nowMs = TimeLock * MsPerSec
    /\ tampered = {}
    /\ chain = InitializedChain(EmptyChain, NoHeight, nowMs)
    /\ height = InitializedHeight(NoHeight)
    /\ calls = [s \in Slots |->
                  IF s = 1
                  THEN InitializeCall(
                         NewCall("initializeChain"), EmptyChain, NoHeight, nowMs)
                  ELSE Idle]

----------------------------------------------------------------------------
(* Operations *)

Put(s, call) == calls' = [calls EXCEPT ![s] = call]

\* a call whose executor has ended, or whose result the caller has read
Ended(call) == call.pc \in {"done", "dead"} \/ call.delivered

\* a new call takes the first free place
Free(s) ==
    /\ calls[s].op = "idle"
    /\ \A r \in 1..(s - 1) : calls[r].op # "idle"

\* initializeChain() called again
InitializeChain(s) ==
    /\ Free(s)
    /\ Put(s, InitializeCall(NewCall("initializeChain"), chain, height, nowMs))
    /\ chain' = InitializedChain(chain, height, nowMs)
    /\ height' = InitializedHeight(height)
    /\ UNCHANGED <<nowMs, tampered>>

\* getChainHeight()
GetChainHeight(s) ==
    /\ Free(s)
    /\ Put(s, [Settle(NewCall("getChainHeight"), "resolved", height)
                 EXCEPT !.pc = "done"])
    /\ UNCHANGED <<chain, height, nowMs, tampered>>

\* the least element of a set of indices, 0 for the empty set
First(S) == IF S = {} THEN 0 ELSE CHOOSE i \in S : \A j \in S : i <= j

\* getBlockByHeight(h): self.chain.filter(...)[0]
GetBlockByHeight(s, h) ==
    LET i == First({k \in 1..Len(chain) : chain[k].height = h})
        call == [NewCall("getBlockByHeight") EXCEPT !.idx = h]
    IN  /\ Free(s)
        /\ Put(s, [(IF i > 0 THEN Settle(call, "resolved", chain[i])
                             ELSE Settle(call, "rejected", FALSE))
                     EXCEPT !.pc = "done"])
        /\ UNCHANGED <<chain, height, nowMs, tampered>>

\* getBlockByHash(hash): self.chain.filter(...)[0]
GetBlockByHash(s, hash) ==
    LET i == First({k \in 1..Len(chain) : chain[k].hash = hash})
        call == NewCall("getBlockByHash")
    IN  /\ Free(s)
        /\ Put(s, [(IF i > 0 THEN Settle(call, "resolved", chain[i])
                             ELSE Settle(call, "rejected", FALSE))
                     EXCEPT !.pc = "done"])
        /\ UNCHANGED <<chain, height, nowMs, tampered>>

\* the issue times a caller's challenge can carry, around the timelock's edge
IssueTimes == {Seconds(nowMs) - TimeLock, Seconds(nowMs) - TimeLock + 1}

\* a bug: the last field is parsed, not the second
MessageTime_Last(message) == ParseInt(message, Len(message))

\* line 127: parseInt(message.split(':')[1])
MessageTime(message) == ParseInt(message, 2)

\* a bug: <= for <
WithinTimeLock_Inclusive(timeNow, messageTime) ==
    ~messageTime.nan /\ timeNow - messageTime.val <= TimeLock

\* line 131: timeNow - messageTime < 300 (false for NaN)
WithinTimeLock(timeNow, messageTime) ==
    ~messageTime.nan /\ timeNow - messageTime.val < TimeLock

\* a change: each cause of a rejection gets a value of its own
SubmitStarCall_NamedCauses(call, address, message, signature, star) ==
    LET timeNow == Seconds(nowMs)
    IN  IF ~WithinTimeLock(timeNow, MessageTime(message))
        THEN [Settle(call, "rejected", "ExpiredChallenge") EXCEPT !.pc = "done"]
        ELSE IF ~signature.wellFormed
        THEN [call EXCEPT !.verifyCalled = TRUE, !.pc = "dead"]
        ELSE IF ~Verify(message, address, signature)
        THEN [Settle(call, "rejected", "InvalidSignature")
                EXCEPT !.verifyCalled = TRUE, !.pc = "done"]
        ELSE StartAddBlock([call EXCEPT !.verifyCalled = TRUE,
                                        !.address = address, !.star = star],
                           chain, height,
                           Block([owner |-> address, star |-> star]), nowMs)

\* submitStar(address, message, signature, star), to its first await or its end
SubmitStarCall(call, address, message, signature, star) ==
    LET timeNow == Seconds(nowMs)
    IN  IF ~WithinTimeLock(timeNow, MessageTime(message))
        THEN [Settle(call, "rejected", TimedOut) EXCEPT !.pc = "done"]
        ELSE IF ~signature.wellFormed
        THEN \* bitcoinMessage.verify throws inside the async executor
             [call EXCEPT !.verifyCalled = TRUE, !.pc = "dead"]
        ELSE IF ~Verify(message, address, signature)
        THEN [Settle(call, "rejected", TimedOut)
                EXCEPT !.verifyCalled = TRUE, !.pc = "done"]
        ELSE StartAddBlock([call EXCEPT !.verifyCalled = TRUE,
                                        !.address = address, !.star = star],
                           chain, height,
                           Block([owner |-> address, star |-> star]), nowMs)

\* a bug: the block is added before the signature is looked at
Authorized_Unsigned(address, message, signature) ==
    WithinTimeLock(Seconds(nowMs), MessageTime(message))

\* whether submitStar reaches line 138 and calls _addBlock
Authorized(address, message, signature) ==
    /\ WithinTimeLock(Seconds(nowMs), MessageTime(message))
    /\ signature.wellFormed
    /\ Verify(message, address, signature)

\* submitStar(address, message, signature, star), the signature made by the
\* key of `signer`; `issued` is the second the message was issued at
SubmitMessage(s, address, message, issued, signer, star) ==
    LET signature == IF signer = <<>> THEN Malformed ELSE Signature(signer, message)
        call == [NewCall("submitStar") EXCEPT
                   !.elapsed = Seconds(nowMs) - issued,
                   !.sig = IF signer = <<>> THEN "malformed"
                           ELSE IF signer = address THEN "valid" ELSE "wrongKey"]
        appends == Authorized(address, message, signature)
    IN  /\ Free(s)
        /\ appends => height < MaxHeight
        /\ Put(s, SubmitStarCall(call, address, message, signature, star))
        /\ chain' = IF appends
                    THEN ChainAfterAdd(chain, height,
                                       Block([owner |-> address, star |-> star]), nowMs)
                    ELSE chain
        /\ height' = IF appends THEN HeightAfterAdd(height) ELSE height
        /\ UNCHANGED <<nowMs, tampered>>

SubmitStar(s, address, issued, signer, star) ==
    SubmitMessage(s, address, Challenge(address, issued), issued, signer, star)

\* validateChain()
ValidateChain(s) ==
    /\ Free(s)
    /\ Put(s, StartValidation([NewCall("validateChain") EXCEPT !.tampered0 = tampered],
                               chain))
    /\ UNCHANGED <<chain, height, nowMs, tampered>>

\* a validateChain in flight resumes after `await block.validate()`: the next
\* turn of the loop over the live array, or the end of the loop
ResumeValidation(call, c) ==
    IF call.idx < Len(c)
    THEN IF VisitThrows(c, call.idx)
         THEN [call EXCEPT !.pc = "dead"]
         ELSE [call EXCEPT !.idx = @ + 1,
                           !.errorLog = @ \o VisitBlock(c, call.idx)]
    ELSE FinishCall(call)

ValidateStep(s) ==
    /\ calls[s].pc = "validating"
    /\ Put(s, ResumeValidation(calls[s], chain))
    /\ UNCHANGED <<chain, height, nowMs, tampered>>

----------------------------------------------------------------------------
(* getStarsByWalletAddress *)

\* lines 183-189: forEach starts one async callback per block of the chain,
\* each stops at `await star.getBData()`; then resolve(stars), still empty
GetStarsCall(call, address, c) ==
    [Settle(call, "resolved", <<>>) EXCEPT
       !.address = address, !.len0 = Len(c), !.pc = "decoding"]

GetStarsByWalletAddress(s, address) ==
    /\ Free(s)
    /\ Put(s, GetStarsCall(NewCall("getStarsByWalletAddress"), address, chain))
    /\ UNCHANGED <<chain, height, nowMs, tampered>>

\* line 187, in the callback of one block
StarsAfterCallback(stars, address, block) ==
    IF HasBData(block) /\ getBData(block).owner = address
    THEN Append(stars, getBData(block))
    ELSE stars

\* the callbacks of the first n blocks, in the order forEach started them
RECURSIVE StarsAfterCallbacks(_, _, _)
StarsAfterCallbacks(c, n, address) ==
    IF n = 0
    THEN <<>>
    ELSE StarsAfterCallback(StarsAfterCallbacks(c, n - 1, address), address, c[n])

\* the pending callbacks resume after their awaits, one after the other
StarsCallbacks(s) ==
    /\ calls[s].pc = "decoding"
    /\ ~calls[s].delivered
    /\ Put(s, [calls[s] EXCEPT
                 !.stars = StarsAfterCallbacks(chain, calls[s].len0, calls[s].address),
                 !.pc = "decoded"])
    /\ UNCHANGED <<chain, height, nowMs, tampered>>

\* the caller's await of the returned promise resumes: it reads the array.
\* The promise is resolved at line 189 already, so this step is enabled while
\* the callbacks still wait for getBData(), whose promise may settle later.
DeliverStars(s) ==
    /\ calls[s].pc \in {"decoding", "decoded"}
    /\ ~calls[s].delivered
    /\ Put(s, [calls[s] EXCEPT !.delivered = TRUE, !.seen = calls[s].stars])
    /\ UNCHANGED <<chain, height, nowMs, tampered>>

----------------------------------------------------------------------------
(* The environment *)

\* a call that has ended leaves the model
Retire(s) ==
    /\ Ended(calls[s])
    /\ Put(s, Idle)
    /\ UNCHANGED <<chain, height, nowMs, tampered>>

Tick ==
    /\ nowMs < TimeLock * MsPerSec + MaxTicks * TickMs
    /\ nowMs' = nowMs + TickMs
    /\ UNCHANGED <<chain, height, calls, tampered>>

\* what tamperTest is prepared to write into a block (line 254): body = {}
TamperedBodies == {<<"object">>}

\* the body of the block stored at index h (from 0) is overwritten from outside
TamperBody(h, body) ==
    /\ h + 1 <= Len(chain)
    /\ chain[h + 1].body # body
    /\ chain' = [chain EXCEPT ![h + 1].body = body]
    /\ tampered' = tampered \cup {h}
    /\ UNCHANGED <<height, nowMs, calls>>

----------------------------------------------------------------------------

Next ==
    \/ \E s \in Slots : InitializeChain(s)
    \/ \E s \in Slots : GetChainHeight(s)
    \/ \E s \in Slots, h \in 0..MaxHeight : GetBlockByHeight(s, h)
    \/ \E s \in Slots, i \in 1..Len(chain) : GetBlockByHash(s, chain[i].hash)
    \/ \E s \in Slots, a \in Addresses, t \in IssueTimes,
          k \in Addresses \cup {<<>>}, star \in Stars : SubmitStar(s, a, t, k, star)
    \/ \E s \in Slots : ValidateChain(s)
    \/ \E s \in Slots : ValidateStep(s)
    \/ \E s \in Slots, a \in Addresses : GetStarsByWalletAddress(s, a)
    \/ \E s \in Slots : StarsCallbacks(s)
    \/ \E s \in Slots : DeliverStars(s)
    \/ \E s \in Slots : Retire(s)
    \/ Tick

Spec == Init /\ [][Next]_vars

\* authorized appends and validations of a chain whose blocks are overwritten
\* from outside
NextTamper ==
    \/ \E s \in Slots, a \in Addresses, star \in Stars :
          SubmitStar(s, a, Seconds(nowMs), a, star)
    \/ \E s \in Slots : ValidateChain(s)
    \/ \E s \in Slots : ValidateStep(s)
    \/ \E s \in Slots : Retire(s)
    \/ \E h \in 0..MaxHeight, b \in TamperedBodies : TamperBody(h, b)

SpecTamper == Init /\ [][NextTamper]_vars

\* an address with a ':' in it
ColonAddresses == {<<Txt("addrA"), Txt("b")>>}

\* requestMessageOwnershipVerification(address); the caller keeps the result
RequestMessageOwnershipVerification(s, address) ==
    /\ Free(s)
    /\ Put(s, [Settle(NewCall("requestMessageOwnershipVerification"), "resolved",
                      requestMessageOwnershipVerification(address, nowMs))
                 EXCEPT !.address = address, !.at = nowMs, !.pc = "done"])
    /\ UNCHANGED <<chain, height, nowMs, tampered>>

\* the caller of place r signs the challenge it got and submits it
SubmitChallenge(s, r, star) ==
    /\ calls[r].op = "requestMessageOwnershipVerification"
    /\ SubmitMessage(s, calls[r].address, calls[r].value, Seconds(calls[r].at),
                     calls[r].address, star)

\* the clock moves on by just less than the timelock
Wait ==
    /\ nowMs <= TimeLock * MsPerSec + MaxTicks * TickMs
    /\ nowMs' = nowMs + TimeLock * MsPerSec - TickMs
    /\ UNCHANGED <<chain, height, calls, tampered>>

\* challenges requested, kept and submitted while time passes
NextChallenge ==
    \/ \E s \in Slots, a \in Addresses \cup ColonAddresses :
          RequestMessageOwnershipVerification(s, a)
    \/ \E s \in Slots, r \in Slots, star \in Stars : SubmitChallenge(s, r, star)
    \/ \E s \in Slots : ValidateStep(s)
    \/ \E s \in Slots : Retire(s)
    \/ Tick
    \/ Wait

SpecChallenge == Init /\ [][NextChallenge]_vars

\* what tamperTest is prepared to write into a block (lines 252-253), and the
\* height of a first block
TamperedHeights == {0, 7}
TamperedHashes == {<<"DFdlf90448thgVDDfd9375r32h2hfn">>}

\* a field of the block stored at index i (from 0) is overwritten from outside
TamperHeight(i, h) ==
    /\ i + 1 <= Len(chain)
    /\ chain[i + 1].height # h
    /\ chain' = [chain EXCEPT ![i + 1].height = h]
    /\ tampered' = tampered \cup {i}
    /\ UNCHANGED <<height, nowMs, calls>>

TamperHash(i, hash) ==
    /\ i + 1 <= Len(chain)
    /\ chain[i + 1].hash # hash
    /\ chain' = [chain EXCEPT ![i + 1].hash = hash]
    /\ tampered' = tampered \cup {i}
    /\ UNCHANGED <<height, nowMs, calls>>

TamperPrevious(i, hash) ==
    /\ i + 1 <= Len(chain)
    /\ chain[i + 1].previousBlockHash # hash
    /\ chain' = [chain EXCEPT ![i + 1].previousBlockHash = hash]
    /\ tampered' = tampered \cup {i}
    /\ UNCHANGED <<height, nowMs, calls>>

\* appends and validations of a chain of which one field of one block is
\* overwritten from outside
NextForge ==
    \/ \E s \in Slots, a \in Addresses, star \in Stars :
          SubmitStar(s, a, Seconds(nowMs), a, star)
    \/ \E s \in Slots : ValidateChain(s)
    \/ \E s \in Slots : ValidateStep(s)
    \/ \E s \in Slots : Retire(s)
    \/ \E i \in 0..MaxHeight, h \in TamperedHeights :
          tampered = {} /\ TamperHeight(i, h)
    \/ \E i \in 0..MaxHeight, hash \in TamperedHashes :
          tampered = {} /\ TamperHash(i, hash)
    \/ \E i \in 0..MaxHeight, hash \in TamperedHashes :
          tampered = {} /\ TamperPrevious(i, hash)
    \/ \E i \in 0..MaxHeight, b \in TamperedBodies :
          tampered = {} /\ TamperBody(i, b)

SpecForge == Init /\ [][NextForge]_vars

\* this.height (line 26) is a public field: it is written from outside
CorruptHeight(h) ==
    /\ h # height
    /\ height' = h
    /\ UNCHANGED <<chain, nowMs, calls, tampered>>

\* authorized appends to a ledger whose cached height is written from outside
NextCorrupt ==
    \/ \E s \in Slots, a \in Addresses, star \in Stars :
          Len(chain) <= MaxHeight /\ SubmitStar(s, a, Seconds(nowMs), a, star)
    \/ \E s \in Slots : ValidateStep(s)
    \/ \E s \in Slots : Retire(s)
    \/ \E h \in NoHeight..MaxHeight : CorruptHeight(h)

SpecCorrupt == Init /\ [][NextCorrupt]_vars

----------------------------------------------------------------------------
(* Properties *)

Range(f) == {f[i] : i \in DOMAIN f}

\* slot s takes a new call of `op` in this step
Starts(s, op) == calls[s].op = "idle" /\ calls'[s].op = op

\* a submitStar call in flight whose executor has passed both checks
Appending(call) == call.op = "submitStar" /\ call.pc = "validating"

\* C1: once the object is constructed the ledger is never seen without its
\* genesis block: the cached height is never -1, the block at index 0 has
\* height 0 and an empty previousBlockHash, a ledger of height 0 holds that
\* block alone, and getChainHeight() and getBlockByHeight(0) answer accordingly.
C1_GenesisAfterConstruction ==
    /\ height >= 0
    /\ Len(chain) >= 1
    /\ chain[1].height = 0
    /\ chain[1].previousBlockHash = NoHash
    /\ chain[1].body = Encode(GenesisData)
    /\ height = 0 => Len(chain) = 1
    /\ \A s \in Slots :
         /\ calls[s].op = "getChainHeight" => calls[s].value >= 0
         /\ calls[s].op = "getBlockByHeight" /\ calls[s].idx = 0 =>
              /\ calls[s].outcome = "resolved"
              /\ calls[s].value.previousBlockHash = NoHash

\* getChainHeight() has answered 0 while the constructor's initializeChain is
\* still awaiting its validation
C1_Witness ==
    /\ calls[1].op = "initializeChain" /\ calls[1].pc = "validating"
    /\ calls[2].op = "getChainHeight" /\ calls[2].value = 0
    /\ Len(chain) = 1

\* C2: the block stored at index i has height i, and the cached height is the
\* chain length minus 1.
C2_HeightsAligned ==
    /\ \A i \in 1..Len(chain) : chain[i].height = i - 1
    /\ height = Len(chain) - 1

\* two appends are in flight at once
C2_Witness ==
    /\ Appending(calls[1]) /\ Appending(calls[2])
    /\ Len(chain) = 3

\* C3: every block after the first carries the hash of the block before it.
C3_Linked ==
    \A i \in 2..Len(chain) : chain[i].previousBlockHash = chain[i - 1].hash

\* two appends are in flight, the second linked to the block of the first
C3_Witness ==
    /\ Appending(calls[1]) /\ Appending(calls[2])
    /\ calls[1].block.height = 1 /\ calls[2].block.height = 2
    /\ calls[2].block.previousBlockHash = calls[1].block.hash
    /\ calls[1].idx < Len(chain)

FreshAndSigned(call) ==
    call.op = "submitStar" /\ call.elapsed < TimeLock /\ call.sig = "valid"

C4_Call(s) ==
    Starts(s, "submitStar") /\ FreshAndSigned(calls'[s]) =>
        /\ Len(chain') = Len(chain) + 1
        /\ SubSeq(chain', 1, Len(chain)) = chain
        /\ height' = height + 1
        /\ chain'[Len(chain')].height = height + 1
        /\ Decodable(chain'[Len(chain')].body)
        /\ Decode(chain'[Len(chain')].body) =
             [owner |-> calls'[s].address, star |-> calls'[s].star]
        /\ calls'[s].block = chain'[Len(chain')]

C4_Result ==
    \A s \in Slots :
        FreshAndSigned(calls[s]) =>
            /\ calls[s].pc \in {"validating", "done"}
            /\ calls[s].pc = "validating" => calls[s].outcome = "pending"
            /\ calls[s].pc = "done" =>
                 /\ calls[s].outcome = "resolved"
                 /\ calls[s].value = calls[s].block
                 /\ chain[calls[s].value.height + 1] = calls[s].value

\* no other step of any call changes the chain
C4_OnlyOne ==
    chain' # chain => \E s \in Slots : Starts(s, "submitStar") /\ FreshAndSigned(calls'[s])

\* C4: a submitStar call with a challenge younger than 300 s and a signature of
\* that challenge by the address appends exactly one block, at the previous
\* height + 1 and with the payload {owner: address, star: star}, and resolves
\* with that block.
C4_Accepted ==
    /\ []C4_Result
    /\ [][(\A s \in Slots : C4_Call(s)) /\ C4_OnlyOne]_vars

\* an accepted call has resolved with the block of height 2
C4_Witness ==
    \E s \in Slots :
        /\ FreshAndSigned(calls[s]) /\ calls[s].pc = "done"
        /\ calls[s].elapsed = TimeLock - 1
        /\ calls[s].outcome = "resolved" /\ calls[s].value.height = 2

Expired(call) == call.op = "submitStar" /\ call.elapsed >= TimeLock

\* C5: a submitStar call whose challenge is 300 s old or older is rejected
\* whatever the signature, without a call of the signature check and without
\* a change of the chain or the height.
C5_ExpiredRejected ==
    [][\A s \in Slots :
         Starts(s, "submitStar") /\ Expired(calls'[s]) =>
             /\ calls'[s].pc = "done"
             /\ calls'[s].outcome = "rejected"
             /\ ~calls'[s].verifyCalled
             /\ chain' = chain
             /\ height' = height]_vars

\* a challenge of exactly 300 s with a signature the library cannot parse
C5_Witness ==
    \E s \in Slots :
        /\ Expired(calls[s]) /\ calls[s].elapsed = TimeLock
        /\ calls[s].sig = "malformed"
        /\ calls[s].outcome = "rejected"

\* the signature check returns false: a well-formed signature by another key
FreshWrongKey(call) ==
    call.op = "submitStar" /\ call.elapsed < TimeLock /\ call.sig = "wrongKey"

\* C6: a submitStar call with a non-expired challenge and a signature for which
\* the check returns false is rejected, and the chain and the height are after
\* the call what they were before it.
C6_BadSignatureRejected ==
    [][\A s \in Slots :
         Starts(s, "submitStar") /\ FreshWrongKey(calls'[s]) =>
             /\ calls'[s].pc = "done"
             /\ calls'[s].outcome = "rejected"
             /\ calls'[s].verifyCalled
             /\ chain' = chain
             /\ height' = height]_vars

C6_Witness ==
    \E s \in Slots :
        /\ FreshWrongKey(calls[s])
        /\ calls[s].outcome = "rejected"
        /\ Len(chain) > 1

\* C7: every submitStar call whose executor has ended has produced one outcome,
\* Accepted or Rejected.
C7_OneOutcome ==
    \A s \in Slots :
        calls[s].op = "submitStar" /\ calls[s].pc \in {"done", "dead"} =>
            calls[s].outcome \in {"resolved", "rejected"}

\* C8: a validateChain() called after the body of the block at height h was
\* overwritten returns a list with a hash finding for height h.
C8_TamperFound ==
    \A s \in Slots :
        calls[s].op = "validateChain" /\ calls[s].pc = "done" =>
            \A h \in calls[s].tampered0 :
                Finding(h, "currentHash") \in Range(calls[s].value)

\* the body of a block appended by submitStar was overwritten, and found
C8_Witness ==
    \E s \in Slots :
        /\ calls[s].op = "validateChain" /\ calls[s].pc = "done"
        /\ calls[s].tampered0 = {1}
        /\ calls[s].value = <<Finding(1, "currentHash")>>
        /\ Len(chain) = 3

\* C9: with no tampering every validateChain() returns the empty list, and the
\* validation after every append finds nothing, so that every append resolves
\* with its block.
C9_ValidWithoutTamper ==
    \A s \in Slots :
        /\ calls[s].errorLog = <<>>
        /\ calls[s].op = "validateChain" /\ calls[s].pc = "done" =>
             calls[s].outcome = "resolved" /\ calls[s].value = <<>>
        /\ calls[s].op = "submitStar" /\ calls[s].verifyCalled
             /\ calls[s].sig = "valid" /\ calls[s].pc = "done" =>
             calls[s].outcome = "resolved" /\ calls[s].value = calls[s].block
        /\ calls[s].pc # "dead" \/ calls[s].op = "submitStar"

\* a validateChain() has walked three blocks, the last one pushed while it was
\* in flight, and an append is still validating
C9_Witness ==
    /\ calls[1].op = "validateChain" /\ calls[1].pc = "done"
    /\ calls[1].idx = 3 /\ calls[1].value = <<>>
    /\ Appending(calls[2]) /\ calls[2].block.height = 2

\* the decoded payloads of the blocks of c[1..n] after the genesis block whose
\* owner is `address`, in chain order
RECURSIVE OwnedStars(_, _, _)
OwnedStars(c, n, address) ==
    IF n <= 1
    THEN <<>>
    ELSE IF Decode(c[n].body).owner = address
    THEN Append(OwnedStars(c, n - 1, address), Decode(c[n].body))
    ELSE OwnedStars(c, n - 1, address)

\* C10: what getStarsByWalletAddress(a) hands to its caller is exactly the
\* decoded payloads of the blocks owned by a, in chain order.
C10_StarsDelivered ==
    \A s \in Slots :
        calls[s].op = "getStarsByWalletAddress" /\ calls[s].delivered =>
            calls[s].seen = OwnedStars(chain, calls[s].len0, calls[s].address)

\* a submitStar call whose append was followed by a validation with findings
AppendFoundErrors(call) ==
    call.op = "submitStar" /\ call.pc = "done" /\ call.errorLog # <<>>

C11_Failure ==
    \A s \in Slots :
        AppendFoundErrors(calls[s]) =>
            /\ calls[s].outcome = "rejected"
            /\ calls[s].value = calls[s].errorLog
            /\ Len(chain) > calls[s].block.height
            /\ chain[calls[s].block.height + 1].hash = calls[s].block.hash
            /\ height >= calls[s].block.height

C11_NoRollback ==
    /\ Len(chain') >= Len(chain)
    /\ height' >= height
    /\ \A s \in Slots :
         Starts(s, "submitStar") /\ calls'[s].pc = "validating" =>
             Len(chain') = Len(chain) + 1 /\ height' = height + 1

\* C11: when the validation after an append has findings (a block was
\* overwritten), the new block stays in the chain, the chain length and the
\* height stay one more than before, and submitStar is rejected with the whole
\* list of the findings of that validation.
C11_FailsWithFindings ==
    /\ []C11_Failure
    /\ [][C11_NoRollback]_vars

\* the blocks of heights 0 and 1 were overwritten, then an append of height 2
\* rejected with both findings
C11_Witness ==
    \E s \in Slots :
        /\ AppendFoundErrors(calls[s])
        /\ tampered = {0, 1}
        /\ calls[s].value = <<Finding(0, "currentHash"), Finding(1, "currentHash")>>
        /\ calls[s].block.height = 2
        /\ Len(chain) = 3 /\ height = 2

\* C12: an append started while the chain length differs from the cached
\* height + 1 fails with the height-mismatch error and leaves the chain and
\* the cached height as they were.
C12_MismatchMutatesNothing ==
    [][\A s \in Slots :
         /\ Starts(s, "submitStar")
         /\ FreshAndSigned(calls'[s])
         /\ HeightDiscrepancy(chain, height)
         => /\ calls'[s].outcome = "rejected"
            /\ calls'[s].value = Discrepancy
            /\ chain' = chain
            /\ height' = height]_vars

Requested(call) == call.op = "requestMessageOwnershipVerification"

\* C13 as stated: any two calls of requestMessageOwnershipVerification for
\* the same address return different challenge strings.
C13_AlwaysDifferent ==
    \A s \in Slots, r \in Slots :
        /\ s # r /\ Requested(calls[s]) /\ Requested(calls[r])
        /\ calls[s].address = calls[r].address
        => calls[s].value # calls[r].value

\* C13 amended: two calls of requestMessageOwnershipVerification for the same
\* address return different challenge strings exactly when they are made in
\* different seconds of the clock; within one second they return the same.
C13_DifferentSeconds ==
    \A s \in Slots, r \in Slots :
        /\ s # r /\ Requested(calls[s]) /\ Requested(calls[r])
        /\ calls[s].address = calls[r].address
        => (calls[s].value # calls[r].value
              <=> Seconds(calls[s].at) # Seconds(calls[r].at))

\* two calls at different times of one second, with one result
C13_Witness ==
    /\ Requested(calls[1]) /\ Requested(calls[2])
    /\ calls[1].address = calls[2].address
    /\ calls[1].at # calls[2].at
    /\ calls[1].value = calls[2].value

RejectedExpired(call) == Expired(call) /\ call.outcome = "rejected"

RejectedBadSignature(call) == FreshWrongKey(call) /\ call.outcome = "rejected"

C15_Blocks ==
    /\ \A i \in 1..Len(chain), j \in 1..Len(chain) :
          chain[i].height = chain[j].height => i = j
    /\ \A s \in Slots :
          calls[s].op = "submitStar" =>
              /\ calls[s].verifyCalled /\ calls[s].sig = "valid" =>
                    calls[s].outcome # "rejected"
              /\ Appending(calls[s]) =>
                    /\ calls[s].outcome = "pending"
                    /\ chain[calls[s].block.height + 1] = calls[s].block

\* an append starts while another one is in flight
C15_Step ==
    \A s \in Slots :
        /\ Starts(s, "submitStar") /\ calls'[s].verifyCalled
        /\ calls'[s].sig = "valid"
        /\ \E r \in Slots : Appending(calls[r])
        => /\ Appending(calls'[s])
           /\ chain' = Append(chain, calls'[s].block)
           /\ calls'[s].block.height = height + 1
           /\ calls'[s].block.height = chain[Len(chain)].height + 1
           /\ calls'[s].block.previousBlockHash = chain[Len(chain)].hash
           /\ height' = calls'[s].block.height

\* C15: with appends in flight at the same time, each append reads the height,
\* builds, hashes and pushes its block in one step: no two blocks have the same
\* height, each block is pushed with the hash of the block directly before it,
\* and no append fails with a height mismatch.
C15_AppendsAtomic ==
    /\ []C15_Blocks
    /\ [][C15_Step]_vars

\* two appends in flight, the second started before the validation of the
\* first has visited any block after the genesis block
C15_Witness ==
    /\ Appending(calls[1]) /\ Appending(calls[2])
    /\ calls[1].idx = 1 /\ calls[2].idx = 1
    /\ calls[2].block.height = calls[1].block.height + 1
    /\ chain[Len(chain)] = calls[2].block

\* the call of place s visits the block at index i > 0 in this step
Visits(s, i) ==
    /\ calls[s].pc = "validating" /\ calls[s].idx = i /\ i > 0
    /\ calls'[s].idx = i + 1

\* the kinds of the findings the call of place s adds in this step
NewKinds(s) ==
    {calls'[s].errorLog[k].kind :
        k \in (Len(calls[s].errorLog) + 1)..Len(calls'[s].errorLog)}

C16_Visit ==
    \A s \in Slots, i \in 1..Len(chain) - 1 :
        Visits(s, i) =>
            /\ chain[i + 1].height # chain[i].height + 1 => "critical" \in NewKinds(s)
            /\ chain[i + 1].previousBlockHash # chain[i].hash =>
                  "previousHash" \in NewKinds(s)
            /\ SubSeq(calls'[s].errorLog, 1, Len(calls[s].errorLog)) = calls[s].errorLog
            /\ chain' = chain

C16_Result ==
    \A s \in Slots :
        calls[s].op = "validateChain" /\ calls[s].pc = "done" =>
            calls[s].outcome = "resolved" /\ calls[s].value = calls[s].errorLog

\* C16: for every block at an index i > 0, whatever height it stores, a pass
\* of validateChain adds a height finding when its height is not the height
\* of the block before it plus 1, and a linkage finding when its previous hash
\* is not the hash of the block before it; the pass goes on after a finding,
\* returns the findings of all blocks in one list and leaves the chain as it is.
C16_AllFindings ==
    /\ []C16_Result
    /\ [][C16_Visit]_vars

\* C17: every validateChain() whose executor has ended has resolved with a
\* list of findings, whatever was overwritten in the chain; none is left
\* pending and none fails without a result.
C17_ValidationCompletes ==
    \A s \in Slots :
        calls[s].op = "validateChain" /\ calls[s].pc \in {"done", "dead"} =>
            /\ calls[s].outcome = "resolved"
            /\ calls[s].value = calls[s].errorLog

Reads ==
    {"getChainHeight", "getBlockByHeight", "getBlockByHash",
     "getStarsByWalletAddress", "validateChain"}

\* C18: no step of any operation removes, reorders or changes a block of the
\* chain: the blocks at the indices the chain had before the step are the
\* same after it, with their height, previous hash, payload and hash, and the
\* chain is never shorter; the reads and initializeChain called again leave
\* the chain and the height as they are.
C18_AppendOnly ==
    [][/\ Len(chain') >= Len(chain)
       /\ \A i \in 1..Len(chain) :
            /\ chain'[i].height = chain[i].height
            /\ chain'[i].previousBlockHash = chain[i].previousBlockHash
            /\ chain'[i].body = chain[i].body
            /\ chain'[i].hash = chain[i].hash
       /\ \A s \in Slots :
            (\E op \in Reads \cup {"initializeChain"} : Starts(s, op)) =>
                chain' = chain /\ height' = height
       /\ (\A s \in Slots : calls[s].op = calls'[s].op) =>
            chain' = chain /\ height' = height]_vars

\* initializeChain() was called again on a chain of three blocks
C18_Witness ==
    \E s \in Slots :
        /\ calls[s].op = "initializeChain" /\ calls[s].pc = "done"
        /\ calls[s].idx = 0
        /\ Len(chain) = 3 /\ height = 2

\* the call of place s submits, in this step, the challenge kept at place r
Submits(s, r) == Starts(s, "submitStar") /\ Requested(calls[r])

ParsedIsIssued(call) ==
    /\ ~MessageTime(call.value).nan
    /\ MessageTime(call.value).val = Seconds(call.at)

\* submitStar treats the challenge as fresh: it goes on to the signature check
FreshExactly(s, r) ==
    calls'[s].verifyCalled <=> Seconds(nowMs) - Seconds(calls[r].at) < TimeLock

\* C19 as stated: for every address, also one with a ':' in it, the time that
\* submitStar parses out of a challenge of requestMessageOwnershipVerification
\* is the second the challenge was issued at, and the challenge is fresh
\* exactly during the 300 seconds after it.
C19_AnyAddress ==
    /\ [](\A s \in Slots : Requested(calls[s]) => ParsedIsIssued(calls[s]))
    /\ [][\A s \in Slots, r \in Slots : Submits(s, r) => FreshExactly(s, r)]_vars

NoColon(address) == Len(address) = 1

C19_Parsed ==
    \A s \in Slots :
        Requested(calls[s]) /\ NoColon(calls[s].address) => ParsedIsIssued(calls[s])

\* C19 amended: for every address without a ':' in it, the time that submitStar
\* parses out of a challenge of requestMessageOwnershipVerification is the
\* second the challenge was issued at, and the challenge is fresh exactly
\* during the 300 seconds after it.
C19_NoColonAddress ==
    /\ []C19_Parsed
    /\ [][\A s \in Slots, r \in Slots :
            Submits(s, r) /\ NoColon(calls[r].address) => FreshExactly(s, r)]_vars

\* a challenge submitted 299 s after its issue, and found fresh
C19_Witness ==
    /\ Requested(calls[1]) /\ NoColon(calls[1].address)
    /\ calls[2].op = "submitStar" /\ calls[2].verifyCalled
    /\ calls[2].elapsed = TimeLock - 1
    /\ Seconds(nowMs) - Seconds(calls[1].at) = TimeLock - 1

\* the call of place s has passed the freshness check and the signature check
\* for its address
PassedBothChecks(call) ==
    /\ call.op = "submitStar"
    /\ call.elapsed < TimeLock
    /\ call.verifyCalled /\ call.sig = "valid"
    /\ call.outcome # "rejected"

C20_Owners ==
    /\ Decode(chain[1].body) = GenesisData
    /\ \A i \in 2..Len(chain) :
          Decodable(chain[i].body) /\ Decode(chain[i].body).owner \in Addresses

C20_Step ==
    chain' # chain =>
        \E s \in Slots :
            /\ Starts(s, "submitStar")
            /\ PassedBothChecks(calls'[s])
            /\ chain' = Append(chain, calls'[s].block)
            /\ Decode(calls'[s].block.body).owner = calls'[s].address

\* C20: every block after the genesis block was appended by a step of a
\* submitStar call that passed the freshness check and the signature check for
\* the address stored as the block's owner; no step of a rejected submission
\* or of a read adds a block.
C20_Authorized ==
    /\ []C20_Owners
    /\ [][C20_Step]_vars

\* blocks of two owners are in the chain, the last one returned to its
\* submitter, next to a rejected submission
C20_Witness ==
    /\ Len(chain) = 3
    /\ Decode(chain[2].body).owner # Decode(chain[3].body).owner
    /\ PassedBothChecks(calls[1]) /\ calls[1].value = chain[3]
    /\ calls[2].op = "submitStar" /\ calls[2].outcome = "rejected"

====
